---- MODULE Spec2Model ----
(***************************************************************************)
(* Model of the Keysight B2901/B2902 SMU driver (src/keysight_smu.py) and  *)
(* of the markdown table formatter (src/md_utils.py).                      *)
(*                                                                         *)
(* Texts are sequences of string pieces (single characters where the code  *)
(* looks at characters), so that equality with a sentinel, concatenation,  *)
(* slicing and "contains" are computed, not assumed.                       *)
(* Every call of the driver is one action: it records the call in op/args, *)
(* the channel I/O it performed in log, and how it ended in ret.           *)
(***************************************************************************)
EXTENDS Integers, Sequences, FiniteSets, TLC

VARIABLES
    session,    \* self._session: "None" or "open"
    visa_addr,  \* self.visa_addr: "None" or "addr"
    idns,       \* whether self.idns holds an identity reply: "None" or "idn"
    serial_number,  \* self.serial_number: "None", "config" or "idn" (where from)
    model,      \* self.model: "None", "config" or "idn"
    calStatus,  \* self.calStatus: "True" or "False"
    outp,       \* instrument: output state of channels 1 and 2
    errq,       \* instrument: an error is waiting in its error queue
    op,         \* the last call made
    args,       \* its arguments
    log,        \* the channel I/O it performed, in order
    ret         \* how it ended: a returned value or a raised exception

\* An attribute that was never assigned holds "unset": reading it raises
\* AttributeError.
vars == <<session, visa_addr, idns, serial_number, model, calStatus,
          outp, errq, op, args, log, ret>>

(***************************************************************************)
(* Bounds of the model.                                                    *)
(***************************************************************************)
MaxStatLen == 3     \* longest status text handed to err_check
MaxTagLen == 1      \* longest id tag handed to err_check

(***************************************************************************)
(* Texts.                                                                  *)
(***************************************************************************)
SeqsUpTo(S, n) == UNION {[1..k -> S] : k \in 0..n}

\* s occurs in t as a contiguous run (Python's `s in t`)
Contains(t, s) ==
    \E i \in 0..(Len(t) - Len(s)) :
        \A j \in 1..Len(s) : t[i + j] = s[j]

(***************************************************************************)
(* Outcomes of a call.                                                     *)
(***************************************************************************)
NoOutcome == [kind |-> "none", shape |-> "", v |-> <<>>, msg |-> <<>>]
Return(shape, v) == [kind |-> "return", shape |-> shape, v |-> v, msg |-> <<>>]
Raise(exc, msg) == [kind |-> "raise", shape |-> exc, v |-> <<>>, msg |-> msg]

(***************************************************************************)
(* KeysightSMU.err_check                                                   *)
(***************************************************************************)
\* the reply of ":SYST:ERR:CODE:ALL?" the code takes for "no error"
NoErrorReply == <<"+", "0", "\n">>

\* f"SCPI error {stat}  {id}"
ScpiErrorText == <<"S", "C", "P", "I", " ", "e", "r", "r", "o", "r", " ">>
ErrMessage(stat, id) == ScpiErrorText \o stat \o <<" ", " ">> \o id

err_check_no_terminator(stat, id) ==
    IF stat = <<"+", "0">>
    THEN Return("bool", <<FALSE>>)
    ELSE Raise("ValueError", ErrMessage(stat, id))

err_check_no_tag(stat, id) ==
    IF stat = NoErrorReply
    THEN Return("bool", <<FALSE>>)
    ELSE Raise("ValueError", ScpiErrorText \o stat)

err_check(stat, id) ==
    IF stat = NoErrorReply
    THEN Return("bool", <<FALSE>>)
    ELSE Raise("ValueError", ErrMessage(stat, id))

(***************************************************************************)
(* Specification SpecErr: err_check applied to every status text and tag   *)
(* within the bounds.                                                      *)
(***************************************************************************)
StatAlphabet == {"+", "0", "1", "\n"}
TagAlphabet == {"a", "0"}
StatusTexts == SeqsUpTo(StatAlphabet, MaxStatLen)
Tags == SeqsUpTo(TagAlphabet, MaxTagLen)

DriverIdle ==
    /\ session = "open"
    /\ visa_addr = "addr"
    /\ idns = "idn"
    /\ serial_number = "idn"
    /\ model = "idn"
    /\ calStatus = "unset"
    /\ outp = [c \in 1..2 |-> FALSE]
    /\ errq = FALSE

DriverUnchanged ==
    UNCHANGED <<session, visa_addr, idns, serial_number, model, calStatus, outp, errq>>

InitErr ==
    /\ DriverIdle
    /\ op = "init"
    /\ args \in [stat : StatusTexts, id : Tags]
    /\ log = <<>>
    /\ ret = NoOutcome

ErrCheckCall ==
    /\ op = "init"
    /\ op' = "err_check"
    /\ ret' = err_check(args.stat, args.id)
    /\ UNCHANGED <<args, log>>
    /\ DriverUnchanged

NextErr == ErrCheckCall

SpecErr == InitErr /\ [][NextErr]_vars

\* C1 (as stated): for the status text "+0" and every tag, err_check returns
\* False and raises nothing.
C1_PlusZeroReturnsFalse ==
    (op = "err_check" /\ args.stat = <<"+", "0">>)
        => (ret.kind = "return" /\ ret.shape = "bool" /\ ret.v = <<FALSE>>)

\* C1 (amended): for the status text "+0\n", the reply as read from the channel
\* with its line terminator, and every tag, err_check returns False, raises
\* nothing and performs no channel I/O.
C1_SentinelReturnsFalse ==
    (op = "err_check" /\ args.stat = <<"+", "0", "\n">>)
        => (ret.kind = "return" /\ ret.shape = "bool" /\ ret.v = <<FALSE>>
            /\ log = <<>>)

C1_Witness ==
    /\ op = "err_check"
    /\ args.stat = <<"+", "0", "\n">>
    /\ args.id = <<"a">>
    /\ ret.kind = "return"

\* C2 (as stated, with the sentinel "+0" the specification names): for every
\* status text other than "+0" and every tag, err_check never returns; it raises
\* ValueError with a message containing the status text and the tag.
C2_NonPlusZeroRaises ==
    (op = "err_check" /\ args.stat # <<"+", "0">>)
        => (ret.kind = "raise" /\ ret.shape = "ValueError"
            /\ Contains(ret.msg, args.stat) /\ Contains(ret.msg, args.id))

\* C2 (amended): for every status text other than "+0\n" (so also for "+0"
\* without terminator) and every tag, err_check never returns; it raises
\* ValueError with the message "SCPI error <status>  <tag>", which contains the
\* status text unchanged and the tag.
C2_NonSentinelRaises ==
    (op = "err_check" /\ args.stat # <<"+", "0", "\n">>)
        => (ret.kind = "raise" /\ ret.shape = "ValueError"
            /\ ret.msg = ScpiErrorText \o args.stat \o <<" ", " ">> \o args.id
            /\ Contains(ret.msg, args.stat) /\ Contains(ret.msg, args.id))

C2_Witness ==
    /\ op = "err_check"
    /\ args.stat = <<"1", "\n">>
    /\ args.id = <<"a">>
    /\ ret.kind = "raise"
    /\ Contains(ret.msg, <<"1", "\n", " ", " ", "a">>)

(***************************************************************************)
(* The channel and the instrument behind it.                               *)
(*                                                                         *)
(* A call's body is a program: the sequence of its channel accesses and    *)
(* sleeps, in source order.  W is session.write, Q a data query, E the     *)
(* error query whose reply goes to err_check, D an error query whose reply *)
(* is only assigned to a local, S time.sleep.                              *)
(***************************************************************************)
MaxFaults == 1      \* writes of one call the instrument may reject

Channels == 1..2

ErrQuery == ":SYST:ERR:CODE:ALL?"

W(c, ch) == [k |-> "write", c |-> c, ch |-> ch, tag |-> <<>>]
Q(c, ch) == [k |-> "query", c |-> c, ch |-> ch, tag |-> <<>>]
E(tag) == [k |-> "errcheck", c |-> ErrQuery, ch |-> 0, tag |-> tag]
D == [k |-> "errquery", c |-> ErrQuery, ch |-> 0, tag |-> <<>>]
S(d) == [k |-> "sleep", c |-> d, ch |-> 0, tag |-> <<>>]

\* a log entry: the step, the reply read (r) and, for a write, whether the
\* instrument rejected it (f)
Ev(s, r, f) == [k |-> s.k, c |-> s.c, ch |-> s.ch, tag |-> s.tag, r |-> r, f |-> f]

\* the instrument's reply to the error query: error codes read and cleared
InstrErrorReply == <<"-", "1", "1", "3", "\n">>
ErrQueryReply(pending) == IF pending THEN InstrErrorReply ELSE <<"+", "0", "\n">>

AllOff == [c \in Channels |-> FALSE]

\* what an accepted write does to the outputs
WriteEffect(o, s) ==
    IF s.c \in {":OUTP:STAT ON", ":OUTP ON"} THEN [o EXCEPT ![s.ch] = TRUE]
    ELSE IF s.c = ":OUTP:STAT OFF" THEN [o EXCEPT ![s.ch] = FALSE]
    ELSE IF s.c = "*RST" THEN AllOff
    ELSE o

NoneTypeError == Raise("AttributeError", <<"'NoneType' object has no attribute">>)

\* Runs prog from step i.  st = [log, errq, outp, exc]; sess is self._session;
\* F is the set of steps whose write the instrument rejects.  A raising
\* err_check, or a channel access on a None session, ends the run.
RECURSIVE Exec(_, _, _, _, _)
Exec(prog, i, st, sess, F) ==
    IF i > Len(prog) THEN st
    ELSE LET s == prog[i] IN
      IF s.k = "sleep"
      THEN Exec(prog, i + 1, [st EXCEPT !.log = Append(@, Ev(s, <<>>, FALSE))], sess, F)
      ELSE IF sess = "None"
      THEN [st EXCEPT !.exc = NoneTypeError]
      ELSE IF s.k = "write"
      THEN IF i \in F
           THEN Exec(prog, i + 1,
                     [st EXCEPT !.log = Append(@, Ev(s, <<>>, TRUE)), !.errq = TRUE],
                     sess, F)
           ELSE Exec(prog, i + 1,
                     [st EXCEPT !.log = Append(@, Ev(s, <<>>, FALSE)),
                                !.outp = WriteEffect(@, s)],
                     sess, F)
      ELSE IF s.k = "errcheck"
      THEN LET reply == ErrQueryReply(st.errq)
               res == err_check(reply, s.tag)
               st2 == [st EXCEPT !.log = Append(@, Ev(s, reply, FALSE)), !.errq = FALSE]
           IN  IF res.kind = "raise"
               THEN [st2 EXCEPT !.exc = res]
               ELSE Exec(prog, i + 1, st2, sess, F)
      ELSE IF s.k = "errquery"
      THEN Exec(prog, i + 1,
                [st EXCEPT !.log = Append(@, Ev(s, ErrQueryReply(st.errq), FALSE)),
                           !.errq = FALSE],
                sess, F)
      ELSE Exec(prog, i + 1, [st EXCEPT !.log = Append(@, Ev(s, <<>>, FALSE))], sess, F)

WriteIdx(prog) == {i \in 1..Len(prog) : prog[i].k = "write"}

RECURSIVE FaultSetsUpTo(_, _)
FaultSetsUpTo(Ws, n) ==
    IF n = 0 THEN {{}}
    ELSE LET P == FaultSetsUpTo(Ws, n - 1)
         IN  P \cup {p \cup {i} : p \in P, i \in Ws}

FaultSets(prog) == FaultSetsUpTo(WriteIdx(prog), MaxFaults)

\* a call starts when the caller holds no pending result
Calling(name, a) ==
    /\ op = "idle"
    /\ op' = name
    /\ args' = a

\* the body of a call: run prog; the call returns value unless the run raised
Effects(prog, F, value) ==
    \E st \in {Exec(prog, 1, [log |-> <<>>, errq |-> errq, outp |-> outp, exc |-> NoOutcome],
                    session, F)} :
        /\ log' = st.log
        /\ errq' = st.errq
        /\ outp' = st.outp
        /\ ret' = IF st.exc.kind = "raise" THEN st.exc ELSE value
        /\ UNCHANGED <<session, visa_addr, idns, serial_number, model, calStatus>>

\* the caller takes the result of the call (as smu_test does between calls)
Idle ==
    /\ op \notin {"idle", "new"}
    /\ ~(op = "__init__" /\ ret.kind = "raise")  \* no object came into being
    /\ op' = "idle"
    /\ args' = [channel |-> 0]
    /\ log' = <<>>
    /\ ret' = NoOutcome
    /\ UNCHANGED <<session, visa_addr, idns, serial_number, model, calStatus, outp, errq>>

ReturnNone == Return("None", <<>>)

(***************************************************************************)
(* KeysightSMU.channel_off, KeysightSMU.reset, KeysightSMU.close           *)
(***************************************************************************)
channel_off_prog(ch) ==
    << W(":OUTP:STAT OFF", ch), S("0.25"), E(<<"channel_off">>) >>

channel_off(ch) ==
    \E F \in FaultSets(channel_off_prog(ch)) :
        /\ Calling("channel_off", [channel |-> ch])
        /\ Effects(channel_off_prog(ch), F, ReturnNone)

reset_prog_rst_first(sess) ==
    IF sess = "open"
    THEN << W("*RST", 0) >> \o channel_off_prog(1) \o channel_off_prog(2)
    ELSE <<>>

reset_prog(sess) ==
    IF sess = "open"
    THEN channel_off_prog(1) \o channel_off_prog(2) \o << W("*RST", 0) >>
    ELSE <<>>

reset ==
    \E F \in FaultSets(reset_prog(session)) :
        /\ Calling("reset", [channel |-> 0])
        /\ Effects(reset_prog(session), F, ReturnNone)

CloseEvent == [k |-> "close", c |-> "session.close", ch |-> 0, tag |-> <<>>,
               r |-> <<>>, f |-> FALSE]

close_session_kept(sess) == sess

close_session(sess) == "None"

close ==
    /\ Calling("close", [channel |-> 0])
    /\ log' = IF session # "None" THEN << CloseEvent >> ELSE <<>>
    /\ session' = IF session # "None" THEN close_session(session) ELSE session
    /\ ret' = ReturnNone
    /\ UNCHANGED <<visa_addr, idns, serial_number, model, calStatus, outp, errq>>

(***************************************************************************)
(* KeysightSMU.open                                                        *)
(*                                                                         *)
(* What the channel does is the environment's choice: rm_ok (the resource  *)
(* manager is created), found (the USB lookup finds the serial number),    *)
(* open_ok (open_resource succeeds) and, per reset + identity attempt,     *)
(* "ok", "write_fails", "query_fails" or "short_reply" (the reply has      *)
(* fewer than three fields, so idns[1] or idns[2] raises IndexError).      *)
(***************************************************************************)
AttemptResults == {"ok", "write_fails", "query_fails", "short_reply"}
RetryDelays == {-1, 0, 1}

Io(k, c, r) == [k |-> k, c |-> c, ch |-> 0, tag |-> <<>>, r |-> r, f |-> FALSE]
Ok == <<"ok">>
Fail == <<"fail">>
Short == <<"short">>

ConnectErrorText ==
    <<"Error connecting to SMU - check SMU power, network connection, and serial number">>

\* lines 79-82 / 86-89: write *RST, query *IDN?, split, take fields 1 and 2
AttemptLog(a) ==
    IF a = "write_fails" THEN << Io("write", "*RST", Fail) >>
    ELSE IF a = "query_fails" THEN << Io("write", "*RST", Ok), Io("query", "*IDN?", Fail) >>
    ELSE IF a = "short_reply" THEN << Io("write", "*RST", Ok), Io("query", "*IDN?", Short) >>
    ELSE << Io("write", "*RST", Ok), Io("query", "*IDN?", Ok) >>

\* lines 69-76: resource manager, lookup of the address when none is set,
\* open_resource; reading self.visa_addr on line 71 raises AttributeError when
\* the attribute was never assigned
EstablishLog(addr, rm_ok, found, open_ok) ==
    << Io("rm", "ResourceManager", IF rm_ok THEN Ok ELSE Fail) >>
    \o (IF rm_ok /\ addr = "None"
        THEN << Io("rm", "list_resources", IF found THEN Ok ELSE Fail) >>
        ELSE <<>>)
    \o (IF rm_ok /\ addr # "unset" /\ (addr = "None" => found)
        THEN << Io("rm", "open_resource", IF open_ok THEN Ok ELSE Fail) >>
        ELSE <<>>)

Established_unchecked(addr, rm_ok, found, open_ok) ==
    rm_ok /\ (addr = "None" => found) /\ open_ok

Established(addr, rm_ok, found, open_ok) ==
    rm_ok /\ addr # "unset" /\ (addr = "None" => found) /\ open_ok

\* time.sleep(retry_delay) raises ValueError for a negative delay
SleepLog(rd) ==
    << [k |-> "sleep", c |-> "retry_delay", ch |-> 0, tag |-> <<>>,
        r |-> IF rd < 0 THEN <<"ValueError">> ELSE <<>>, f |-> FALSE] >>

RetryLog(a1, rd, a2) ==
    AttemptLog(a1)
    \o (IF a1 = "ok" THEN <<>>
        ELSE SleepLog(rd) \o (IF rd < 0 THEN <<>> ELSE AttemptLog(a2)))

OpenOutcome_raises_after_retry(est, a1, rd, a2) ==
    IF ~est THEN Raise("Exception", ConnectErrorText)
    ELSE IF a1 = "ok" THEN ReturnNone
    ELSE IF rd < 0 THEN Raise("Exception", ConnectErrorText)
    ELSE IF a2 = "ok" THEN ReturnNone
    ELSE Raise("Exception", ConnectErrorText)

\* the outer handler (lines 96-102) raises; the handler of the second attempt
\* (lines 90-91) only logs
OpenOutcome(est, a1, rd, a2) ==
    IF ~est THEN Raise("Exception", ConnectErrorText)
    ELSE IF a1 = "ok" THEN ReturnNone
    ELSE IF rd < 0 THEN Raise("Exception", ConnectErrorText)
    ELSE ReturnNone

GotIdns(a) == a \in {"ok", "short_reply"}

\* lines 81-82 / 88-89: model and serial number are taken from a full reply
GotFields(a) == a = "ok"

\* line 73: `self.serial_number in addr` needs a serial number to match
Findable(serial) == serial \notin {"None", "unset"}

open(rd, rm_ok, found, open_ok, a1, a2) ==
    LET est == Established(visa_addr, rm_ok, found, open_ok)
        second == est /\ a1 # "ok" /\ rd >= 0
        wrote == est /\ (a1 # "write_fails" \/ (second /\ a2 # "write_fails"))
    IN  /\ Calling("open", [retry_delay |-> rd])
        /\ log' = EstablishLog(visa_addr, rm_ok, found, open_ok)
                  \o (IF est THEN RetryLog(a1, rd, a2) ELSE <<>>)
        /\ visa_addr' = IF rm_ok /\ visa_addr = "None" /\ found THEN "addr" ELSE visa_addr
        /\ session' = IF est THEN "open" ELSE session
        /\ idns' = IF est /\ (GotIdns(a1) \/ (second /\ GotIdns(a2))) THEN "idn" ELSE idns
        /\ model' = IF est /\ (GotFields(a1) \/ (second /\ GotFields(a2)))
                     THEN "idn" ELSE model
        /\ serial_number' = IF est /\ (GotFields(a1) \/ (second /\ GotFields(a2)))
                             THEN "idn" ELSE serial_number
        /\ outp' = IF wrote THEN AllOff ELSE outp
        /\ ret' = OpenOutcome(est, a1, rd, a2)
        /\ UNCHANGED <<calStatus, errq>>

\* a choice the run never consults is fixed, so that each run is drawn once
Consulted(addr, rd, rm_ok, found, open_ok, a1, a2) ==
    /\ (~(rm_ok /\ addr = "None") => found)
    /\ (~(rm_ok /\ addr # "unset" /\ (addr = "None" => found)) => open_ok)
    /\ (~Established(addr, rm_ok, found, open_ok) => a1 = "ok")
    /\ (~(Established(addr, rm_ok, found, open_ok) /\ a1 # "ok" /\ rd >= 0) => a2 = "ok")

Open ==
    \E rd \in RetryDelays, rm_ok \in BOOLEAN, found \in BOOLEAN, open_ok \in BOOLEAN,
       a1 \in AttemptResults, a2 \in AttemptResults :
        /\ Consulted(visa_addr, rd, rm_ok, found, open_ok, a1, a2)
        /\ (rm_ok /\ visa_addr = "None" /\ found) => Findable(serial_number)
        /\ open(rd, rm_ok, found, open_ok, a1, a2)

(***************************************************************************)
(* Numeric replies: a reply is a list of tokens (the pieces between the    *)
(* commas), a token a sequence of digit characters; float() is computed.   *)
(***************************************************************************)
DigitValue(d) ==
    CASE d = "0" -> 0 [] d = "1" -> 1 [] d = "2" -> 2 [] d = "3" -> 3 [] d = "4" -> 4
      [] d = "5" -> 5 [] d = "6" -> 6 [] d = "7" -> 7 [] d = "8" -> 8 [] d = "9" -> 9

RECURSIVE ParseFloat(_)
ParseFloat(tok) ==
    IF Len(tok) = 0 THEN 0
    ELSE 10 * ParseFloat(SubSeq(tok, 1, Len(tok) - 1)) + DigitValue(tok[Len(tok)])

ParseFloats(toks) == [i \in 1..Len(toks) |-> ParseFloat(toks[i])]

Tokens == {<<"7">>, <<"1", "2">>}

\* the replies of ":MEAS:VOLT?" and ":MEAS:CURR?"
MeasReplies == {<< <<"7">>, <<"1", "2">> >>, << <<"1", "2">>, <<"7">> >>}

(***************************************************************************)
(* KeysightSMU.smu_meas, source_dci, source_dcv                            *)
(***************************************************************************)
Apertures == {"none", "auto", "value"}

\* curr_range and aper_val count as given when truthy; auto_aper wins over
\* aper_val
smu_meas_prog(ch, settle, curr_range, four_wire, aper) ==
    (IF four_wire THEN << W("SENS:REM 1", ch) >> ELSE <<>>)
    \o (IF curr_range THEN << W(":SENS:CURR:DC:RANG:UPP", ch) >> ELSE <<>>)
    \o (IF aper = "auto" THEN << W(":SENS:CURR:DC:APER:AUTO 1", ch) >>
        ELSE IF aper = "value" THEN << W(":SENS:CURR:DC:APER", ch) >>
        ELSE <<>>)
    \o << S(settle), Q(":MEAS:VOLT?", ch), Q(":MEAS:CURR?", ch) >>

\* return V, I with V = float(reply), I = float(reply)
MeasValue(vtok, itok) == Return("tuple2", << ParseFloat(vtok), ParseFloat(itok) >>)

smu_meas(ch) ==
    \E curr_range \in BOOLEAN, four_wire \in BOOLEAN, aper \in Apertures,
       reply \in MeasReplies :
        \E F \in FaultSets(smu_meas_prog(ch, "settle", curr_range, four_wire, aper)) :
            /\ Calling("smu_meas",
                       [channel |-> ch, curr_range |-> curr_range,
                        four_wire |-> four_wire, aper |-> aper])
            /\ Effects(smu_meas_prog(ch, "settle", curr_range, four_wire, aper), F,
                       MeasValue(reply[1], reply[2]))

source_dci_prog(ch) ==
    << W(":SOUR:FUNC:MODE CURR", ch),
       W(":SOUR:CURR:LEV:IMM", ch),
       W(":SOUR:FUNC:SHAP DC", ch),
       W(":SOUR:VOLT:MODE FIX", ch),
       W(":SENS:VOLT:PROT", ch),
       D,
       W(":OUTP:STAT ON", ch),
       W(":INIT:IMM:TRAN", ch),
       D,
       S("0.05"),
       E(<<"source_dc1">>) >>
    \o smu_meas_prog(ch, "0.2", FALSE, FALSE, "none")

source_dci(ch) ==
    \E reply \in MeasReplies :
        \E F \in FaultSets(source_dci_prog(ch)) :
            /\ Calling("source_dci", [channel |-> ch])
            /\ Effects(source_dci_prog(ch), F, MeasValue(reply[1], reply[2]))

source_dcv_prog_unchecked(ch) ==
    << W(":SOUR:FUNC:MODE VOLT", ch),
       W(":SOUR:VOLT:LEV:IMM", ch),
       W(":SOUR:FUNC:SHAP DC", ch),
       E(<<"source_dcv_0">>),
       W(":SOUR:VOLT:MODE FIX", ch),
       W(":SENS:CURR:PROT", ch),
       W(":OUTP:STAT ON", ch),
       W(":INIT:IMM:TRAN", ch),
       S("0.25") >>
    \o smu_meas_prog(ch, "0.2", FALSE, FALSE, "none")
    \o << E(<<"source_dcv">>) >>

source_dcv_prog(ch) ==
    << W(":SOUR:FUNC:MODE VOLT", ch),
       W(":SOUR:VOLT:LEV:IMM", ch),
       W(":SOUR:FUNC:SHAP DC", ch),
       E(<<"source_dcv_0">>),
       W(":SOUR:VOLT:MODE FIX", ch),
       W(":SENS:CURR:PROT", ch),
       W(":OUTP:STAT ON", ch),
       W(":INIT:IMM:TRAN", ch),
       S("0.25"),
       E(<<"source_dcv">>) >>
    \o smu_meas_prog(ch, "0.2", FALSE, FALSE, "none")

source_dcv(ch) ==
    \E reply \in MeasReplies :
        \E F \in FaultSets(source_dcv_prog(ch)) :
            /\ Calling("source_dcv", [channel |-> ch])
            /\ Effects(source_dcv_prog(ch), F, MeasValue(reply[1], reply[2]))

(***************************************************************************)
(* KeysightSMU.initsv_vidaq, fetch_vi                                      *)
(***************************************************************************)
initsv_vidaq_prog(ch, curr_range, four_wire) ==
    << E(<<"init_daq0_ch", "ch">>),
       E(<<"init_daq1_ch", "ch">>),
       W(":SENS:CURR:APER", ch),
       W(":SENS:REM OFF", ch) >>
    \o (IF four_wire
        THEN << Q(":SENS:REM?", ch), W("SENS:REM 1", ch), Q(":SENS:REM?", ch) >>
        ELSE <<>>)
    \o (IF curr_range
        THEN << W(":SENS:CURR:DC:RANG:UPP", ch), Q(":SENS:CURR:DC:RANG:UPP?", ch) >>
        ELSE << W(":SENS:CURR:RANG:AUTO ON", ch) >>)
    \o << W(":SENS:CURR:APER", ch),
          W(":TRIG:ACQ:SOUR TIM", ch),
          E(<<"init_daq2_ch", "ch">>),
          W(":TRIG:ACQ:TIM", ch),
          W(":TRIG:ACQ:COUN", ch),
          E(<<"init_daq3_ch", "ch">>),
          W(":OUTP:STAT ON", ch),
          W(":INIT:ACQ", ch),
          E(<<"init_daq4_ch", "ch">>),
          Q("*STB?", 0) >>

StbReply == <<"0", "\n">>

initsv_vidaq(ch) ==
    \E curr_range \in BOOLEAN, four_wire \in BOOLEAN :
        \E F \in FaultSets(initsv_vidaq_prog(ch, curr_range, four_wire)) :
            /\ Calling("initsv_vidaq",
                       [channel |-> ch, curr_range |-> curr_range, four_wire |-> four_wire])
            /\ Effects(initsv_vidaq_prog(ch, curr_range, four_wire), F,
                       Return("str", StbReply))

fetch_vi_prog(ch) ==
    << Q(":FETC:ARR:CURR?", ch),
       E(<<"fetch1">>),
       Q(":FETC:ARR:VOLT?", ch),
       E(<<"fetch2'">>) >>

FetchReplies == {<< <<"7">> >>, << <<"7">>, <<"1", "2">> >>}

fetch_vi(ch) ==
    \E ireply \in FetchReplies, vreply \in FetchReplies :
        \E F \in FaultSets(fetch_vi_prog(ch)) :
            /\ Calling("fetch_vi", [channel |-> ch])
            /\ Effects(fetch_vi_prog(ch), F,
                       Return("tuple2", << ParseFloats(vreply), ParseFloats(ireply) >>))

(***************************************************************************)
(* KeysightSMU.two_channel_qst                                             *)
(***************************************************************************)
MaxSweep == 2       \* longest voltage list of a sweep

Tracks == 4

\* numpy reshape((4, len // 4), order='C'): the last index varies fastest
ReshapeC(flat) ==
    LET n == Len(flat) \div Tracks
    IN  [t \in 1..Tracks |-> [k \in 1..n |-> flat[(t - 1) * n + k]]]

\* numpy reshape((4, len // 4), order='F'): the first index varies fastest
ReshapeF(flat) ==
    LET n == Len(flat) \div Tracks
    IN  [t \in 1..Tracks |-> [k \in 1..n |-> flat[(k - 1) * Tracks + t]]]

\* lines 334-377: everything up to and including the fetch of the response
qst_prog_head ==
    << W(":sour:func:mode volt", 1),
       W(":sour:func:mode curr", 2),
       W("FORM:ELEM:SENS VOLT,CURR", 0),
       W(":sour:list:volt", 1),
       W(":sour:volt:mode list", 1),
       W(":sour:list:curr", 2),
       W(":sour:curr:mode list", 2),
       Q("SOUR:LIST:VOLT?", 1),
       Q("SOUR:LIST:CURR?", 2),
       W(":SENS:CURR:PROT 0.2", 1),
       W(":SENS:VOLT:PROT 10.0", 2),
       E(<<"ini0">>),
       W(":SENS:FUNC VOLT,CURR", 1),
       W(":SENS:FUNC VOLT,CURR", 2),
       E(<<"ini2">>),
       W(":SENS:CURR:APER", 1),
       W(":SENS:CURR:APER", 2),
       W(":SENS:VOLT:APER", 1),
       W(":SENS:VOLT:APER", 2),
       E(<<"ini3">>),
       W(":TRIG:SOUR TIM", 0),
       E(<<"ini32">>),
       W(":TRIG:TIM", 0),
       E(<<"ini31">>),
       W(":TRIG:COUNT", 0),
       E(<<"ini4">>),
       W(":OUTP ON", 1),
       W(":OUTP ON", 2),
       E(<<"ini5">>),
       W(":INIT", 0),
       E(<<"ini6">>),
       S("count*aperature"),
       Q("FETC:ARR? (@1,2)", 0) >>

\* reshape raises ValueError unless the number of values is a multiple of 4;
\* the closing error check (line 381) runs only after a successful reshape
Reshapable(resp) == Len(resp) % Tracks = 0

two_channel_qst_prog(resp) ==
    qst_prog_head \o (IF Reshapable(resp) THEN << E(<<"ini4">>) >> ELSE <<>>)

two_channel_qst_value(resp) ==
    IF Reshapable(resp)
    THEN Return("array", ReshapeF(ParseFloats(resp)))
    ELSE Raise("ValueError", <<"cannot reshape array">>)

two_channel_qst(n, resp, F) ==
    /\ Calling("two_channel_qst", [n |-> n, resp |-> resp])
    /\ Effects(two_channel_qst_prog(resp), F, two_channel_qst_value(resp))

\* the response of a sweep of n steps whose values alternate
SweepReply(n) == [i \in 1..(Tracks * n) |-> IF i % 2 = 1 THEN <<"7">> ELSE <<"1", "2">>]

TwoChannelQst ==
    \E n \in 1..MaxSweep :
        \E F \in FaultSets(two_channel_qst_prog(SweepReply(n))) :
            two_channel_qst(n, SweepReply(n), F)

(***************************************************************************)
(* Specification Spec: the calls of one session object, in any order.      *)
(***************************************************************************)
Init ==
    /\ session = "None"
    /\ visa_addr \in {"None", "addr"}
    /\ idns = "None"
    /\ serial_number = "config"
    /\ model = "config"
    /\ calStatus = "unset"
    /\ outp \in [Channels -> BOOLEAN]
    /\ errq \in BOOLEAN
    /\ op = "idle"
    /\ args = [channel |-> 0]
    /\ log = <<>>
    /\ ret = NoOutcome

ChannelOff == \E ch \in Channels : channel_off(ch)
SmuMeas == \E ch \in Channels : smu_meas(ch)
SourceDci == \E ch \in Channels : source_dci(ch)
SourceDcv == \E ch \in Channels : source_dcv(ch)
InitsvVidaq == \E ch \in Channels : initsv_vidaq(ch)
FetchVi == \E ch \in Channels : fetch_vi(ch)

Next ==
    \/ Open
    \/ close
    \/ reset
    \/ ChannelOff
    \/ SmuMeas
    \/ SourceDci
    \/ SourceDcv
    \/ InitsvVidaq
    \/ FetchVi
    \/ TwoChannelQst
    \/ Idle

Spec == Init /\ [][Next]_vars

(***************************************************************************)
(* Reading the log of the last call.                                       *)
(***************************************************************************)
Passed(e) == e.k = "errcheck" /\ e.r = <<"+", "0", "\n">>
Faulted(e) == e.k = "errcheck" /\ e.r # <<"+", "0", "\n">>
IsMeasure(e) == e.k = "query" /\ e.c \in {":MEAS:VOLT?", ":MEAS:CURR?"}

\* open: the reset + identity attempts made, the I/O that failed
OpenAttempts == Cardinality({i \in DOMAIN log : log[i].c = "*RST"})
FailedAttempts ==
    Cardinality({i \in DOMAIN log :
                    log[i].k \in {"write", "query"} /\ log[i].r \in {Fail, Short}})
EstablishFailed == \E i \in DOMAIN log : log[i].k = "rm" /\ log[i].r = Fail
OpenSleeps == Cardinality({i \in DOMAIN log : log[i].k = "sleep"})

\* C3 (as stated): whenever establishing the session or the reset + identity
\* query fails, open waits and makes exactly one further attempt; after two
\* failed attempts it raises; it never makes a third attempt.
C3_RetryThenRaise ==
    op = "open" =>
        /\ ((EstablishFailed \/ FailedAttempts >= 1) => OpenSleeps = 1)
        /\ (FailedAttempts = 2 => ret.kind = "raise")
        /\ OpenAttempts <= 2

\* C3 (amended): a failure to establish the session raises the connection error
\* at once, with no wait and no retry; a failed reset + identity query is
\* followed by one wait and exactly one further attempt, never a third, and
\* whatever that attempt does open returns normally with the session open; a
\* negative retry delay makes the wait itself fail, and open raises after one
\* attempt.
C3_OneRetryThenReturn ==
    op = "open" =>
        /\ OpenAttempts <= 2
        /\ ret.kind \in {"return", "raise"}
        /\ (EstablishFailed =>
                /\ ret = Raise("Exception", ConnectErrorText)
                /\ OpenSleeps = 0
                /\ OpenAttempts = 0)
        /\ ((~EstablishFailed /\ FailedAttempts = 0) =>
                /\ ret = ReturnNone
                /\ OpenSleeps = 0
                /\ OpenAttempts = 1
                /\ session = "open")
        /\ ((~EstablishFailed /\ FailedAttempts >= 1) =>
                /\ OpenSleeps = 1
                /\ session = "open"
                /\ IF args.retry_delay >= 0
                   THEN OpenAttempts = 2 /\ ret = ReturnNone
                   ELSE OpenAttempts = 1 /\ ret = Raise("Exception", ConnectErrorText))

C3_Witness ==
    /\ op = "open"
    /\ FailedAttempts = 2
    /\ OpenAttempts = 2
    /\ ret.kind = "return"

SourceOps == {"source_dcv", "source_dci"}

\* the place of a log entry in the sourcing sequence, 0 for any other entry
Stage(e) ==
    IF e.k = "write" /\ e.c \in {":SOUR:FUNC:MODE VOLT", ":SOUR:FUNC:MODE CURR"} THEN 1
    ELSE IF e.k = "write" /\ e.c \in {":SENS:CURR:PROT", ":SENS:VOLT:PROT"} THEN 2
    ELSE IF e.k = "write" /\ e.c = ":OUTP:STAT ON" THEN 3
    ELSE IF e.k = "write" /\ e.c = ":INIT:IMM:TRAN" THEN 4
    ELSE IF e.k = "sleep" /\ e.c \in {"0.25", "0.05"} THEN 5
    ELSE IF e.k = "errcheck" /\ e.tag \in {<<"source_dcv">>, <<"source_dc1">>} THEN 6
    ELSE IF IsMeasure(e) THEN 7
    ELSE 0

\* C4: source_dcv and source_dci issue configure source mode, compliance limit,
\* output on, trigger, fixed sleep, fault check, measure in this order; a
\* measurement query is issued only after the fault check has passed; a fault
\* check that sees a fault makes the call raise, with no measurement query and
\* no (voltage, current) pair returned.
C4_SourceSequence ==
    op \in SourceOps =>
        /\ \A i \in DOMAIN log : \A j \in DOMAIN log :
              (i < j /\ Stage(log[i]) > 0 /\ Stage(log[j]) > 0)
                  => Stage(log[i]) <= Stage(log[j])
        /\ \A j \in DOMAIN log :
              Stage(log[j]) > 1
                  => \E i \in 1..(j - 1) : Stage(log[i]) = Stage(log[j]) - 1
        /\ \A j \in DOMAIN log :
              IsMeasure(log[j])
                  => \E i \in 1..(j - 1) : Stage(log[i]) = 6 /\ Passed(log[i])
        /\ (\E i \in DOMAIN log : Faulted(log[i]))
              => /\ ret.kind = "raise"
                 /\ ret.shape = "ValueError"
                 /\ \A j \in DOMAIN log : ~IsMeasure(log[j])
        /\ ret.kind = "return"
              => /\ ret.shape = "tuple2"
                 /\ Len(ret.v) = 2
                 /\ \E i \in DOMAIN log : \E j \in DOMAIN log :
                        i < j /\ log[i].c = ":MEAS:VOLT?" /\ log[j].c = ":MEAS:CURR?"

C4_Witness ==
    /\ op = "source_dci"
    /\ ret.kind = "return"
    /\ \E i \in DOMAIN log : Stage(log[i]) = 6 /\ Passed(log[i])
    /\ \E i \in DOMAIN log : log[i].c = ":MEAS:CURR?"

RealOps == {"source_dcv", "source_dci", "smu_meas", "channel_off", "initsv_vidaq",
            "fetch_vi", "two_channel_qst", "reset"}

\* C5: in every operation of the real session, every write is followed by an
\* error query whose reply goes to err_check before the next data query or the
\* return; no error reply is read and dropped; so a write the instrument
\* rejects always ends the call with the device-fault error.
C5_EveryWriteChecked ==
    op \in RealOps =>
        /\ \A i \in DOMAIN log :
              log[i].k = "write"
                  => \E j \in (i + 1)..Len(log) :
                        /\ log[j].k = "errcheck"
                        /\ \A m \in (i + 1)..(j - 1) : log[m].k # "query"
        /\ \A i \in DOMAIN log : log[i].k # "errquery"
        /\ (\E i \in DOMAIN log : log[i].k = "write" /\ log[i].f)
              => (ret.kind = "raise" /\ ret.shape = "ValueError")

\* C9: close leaves the session closed; on an open session it releases the
\* channel exactly once; on a closed session it does nothing and raises
\* nothing, so a second close changes nothing.
C9_CloseIdempotent ==
    [][op' = "close" =>
          /\ session' = "None"
          /\ ret' = ReturnNone
          /\ (session = "open" => log' = << CloseEvent >>)
          /\ (session = "None" => (log' = <<>> /\ session' = session))
          /\ UNCHANGED <<visa_addr, idns, serial_number, model, calStatus, outp, errq>>]_vars

C9_Witness ==
    /\ op = "close"
    /\ log = << CloseEvent >>
    /\ session = "None"

\* the accesses of a complete reset: kind, command, channel
ResetSequence ==
    << <<"write", ":OUTP:STAT OFF", 1>>, <<"sleep", "0.25", 0>>, <<"errcheck", ErrQuery, 0>>,
       <<"write", ":OUTP:STAT OFF", 2>>, <<"sleep", "0.25", 0>>, <<"errcheck", ErrQuery, 0>>,
       <<"write", "*RST", 0>> >>

\* C10: with an open session reset turns channel 1 off, checks, turns channel 2
\* off, checks, and only then writes *RST; a faulting check ends the call with
\* the error, before any later channel is turned off and before *RST; with no
\* session reset does nothing and raises nothing.
C10_ResetSequence ==
    op = "reset" =>
        IF session = "None"
        THEN log = <<>> /\ ret = ReturnNone
        ELSE /\ Len(log) <= Len(ResetSequence)
             /\ \A i \in DOMAIN log : <<log[i].k, log[i].c, log[i].ch>> = ResetSequence[i]
             /\ ret.kind \in {"return", "raise"}
             /\ ret.kind = "return"
                   => (Len(log) = Len(ResetSequence)
                       /\ \A i \in DOMAIN log : ~Faulted(log[i]))
             /\ ret.kind = "raise"
                   => /\ ret.shape = "ValueError"
                      /\ Len(log) \in {3, 6}
                      /\ Faulted(log[Len(log)])
             /\ \A i \in DOMAIN log : Faulted(log[i]) => (i = Len(log) /\ ret.kind = "raise")

C10_Witness ==
    /\ op = "reset"
    /\ ret.kind = "raise"
    /\ Len(log) = 3
    /\ outp[2]

(***************************************************************************)
(* Specification SpecQst: two_channel_qst on an open session whose         *)
(* instrument accepts every write, for every voltage list length and every *)
(* response within the bounds.                                             *)
(***************************************************************************)
\* the responses to a sweep of n steps: 4*n values, or one value short
SweepResponses(n) == UNION {[1..len -> Tokens] : len \in {Tracks * n - 1, Tracks * n}}

InitQst ==
    /\ DriverIdle
    /\ op = "idle"
    /\ args = [channel |-> 0]
    /\ log = <<>>
    /\ ret = NoOutcome

QstSweep ==
    \E n \in 1..MaxSweep :
        \E resp \in SweepResponses(n) : two_channel_qst(n, resp, {})

NextQst == QstSweep \/ Idle

SpecQst == InitQst /\ [][NextQst]_vars

IsSweepOf4N == op = "two_channel_qst" /\ Len(args.resp) = Tracks * args.n

\* C6 (as stated): for a voltage list of length N and a response of 4*N values
\* the result is 4 tracks of length N with the track index varying slowest:
\* element k of track t is the response value at 0-based index t*N + k.
C6_TrackSlowest ==
    IsSweepOf4N =>
        /\ ret.kind = "return"
        /\ Len(ret.v) = Tracks
        /\ \A t \in 1..Tracks :
              /\ Len(ret.v[t]) = args.n
              /\ \A k \in 1..args.n :
                    ret.v[t][k] = ParseFloat(args.resp[(t - 1) * args.n + k])

\* C6 (amended): for a voltage list of length N and a response of 4*N values
\* the result is 4 tracks of length N with the track index varying fastest:
\* element k of track t is the response value at 0-based index 4*k + t.
C6_TrackFastest ==
    IsSweepOf4N =>
        /\ ret.kind = "return"
        /\ Len(ret.v) = Tracks
        /\ \A t \in 1..Tracks :
              /\ Len(ret.v[t]) = args.n
              /\ \A k \in 1..args.n :
                    ret.v[t][k] = ParseFloat(args.resp[(k - 1) * Tracks + t])

C6_Witness ==
    /\ IsSweepOf4N
    /\ args.n = 2
    /\ args.resp = SweepReply(2)
    /\ ret.kind = "return"
    /\ ret.v = << <<7, 7>>, <<12, 12>>, <<7, 7>>, <<12, 12>> >>

(***************************************************************************)
(* MockKeysightSMU.  The mock holds no session; each method returns a      *)
(* literal.  A float is Return("float", <<x>>), a list Return("list", ..), *)
(* a pair Return("tuple2", <<a, b>>).                                      *)
(***************************************************************************)
MockNumbers == {0, 7, 12}

\* a mock method touches no channel and no attribute
MockReturns(value) ==
    /\ log' = <<>>
    /\ ret' = value
    /\ UNCHANGED <<session, visa_addr, idns, serial_number, model, calStatus, outp, errq>>

Mock_reset ==
    /\ Calling("reset", [channel |-> 0])
    /\ MockReturns(ReturnNone)

Mock_svmi ==
    \E ch \in Channels, volts \in MockNumbers, iLimit \in MockNumbers :
        /\ Calling("_svmi", [channel |-> ch, level |-> volts, limit |-> iLimit])
        /\ MockReturns(Return("list", <<0>>))

\* the mock's smu_meas takes (channel, settle) only: a call that passes one of
\* the real method's optional arguments raises TypeError
Mock_smu_meas ==
    \E ch \in Channels, settle \in MockNumbers, options \in BOOLEAN :
        /\ Calling("smu_meas", [channel |-> ch, settle |-> settle, options |-> options])
        /\ MockReturns(IF options
                THEN Raise("TypeError", <<"unexpected keyword argument">>)
                ELSE Return("tuple2", <<0, 0>>))

Mock_source_dci ==
    \E ch \in Channels, amps \in MockNumbers, v_comply \in MockNumbers :
        /\ Calling("source_dci", [channel |-> ch, level |-> amps, limit |-> v_comply])
        /\ MockReturns(Return("float", <<0>>))

Mock_source_dcv ==
    \E ch \in Channels, volts \in MockNumbers, comply \in MockNumbers :
        /\ Calling("source_dcv", [channel |-> ch, level |-> volts, limit |-> comply])
        /\ MockReturns(Return("float", <<0>>))

Mock_initsv_vidaq ==
    \E ch \in Channels, curr_range \in BOOLEAN, four_wire \in BOOLEAN :
        /\ Calling("initsv_vidaq", [channel |-> ch, curr_range |-> curr_range, four_wire |-> four_wire])
        /\ MockReturns(Return("str", <<"Test STB">>))

Mock_fetch_vi ==
    \E ch \in Channels :
        /\ Calling("fetch_vi", [channel |-> ch])
        /\ MockReturns(Return("tuple2", << <<0>>, <<0>> >>))

Mock_err_check ==
    \E stat \in StatusTexts, id \in Tags :
        /\ Calling("err_check", [stat |-> stat, id |-> id])
        /\ MockReturns(Return("bool", <<FALSE>>))

(***************************************************************************)
(* Specification SpecMock: the calls of one mock object, in any order.     *)
(***************************************************************************)
InitMock ==
    /\ session = "None"
    /\ visa_addr = "None"
    /\ idns = "None"
    /\ serial_number = "None"
    /\ model = "None"
    /\ calStatus = "unset"
    /\ outp = AllOff
    /\ errq = FALSE
    /\ op = "idle"
    /\ args = [channel |-> 0]
    /\ log = <<>>
    /\ ret = NoOutcome

NextMock ==
    \/ Mock_reset
    \/ Mock_svmi
    \/ Mock_smu_meas
    \/ Mock_source_dci
    \/ Mock_source_dcv
    \/ Mock_initsv_vidaq
    \/ Mock_fetch_vi
    \/ Mock_err_check
    \/ Idle

SpecMock == InitMock /\ [][NextMock]_vars

\* C7: every mock operation performs no channel I/O, never fails and returns
\* the constant of the real operation's result shape: a (voltage, current)
\* pair of zeros for source_dcv, source_dci and smu_meas, two parallel
\* sequences for fetch_vi, a constant status string for initsv_vidaq, False
\* for err_check.
C7_MockConstants ==
    op \in {"reset", "source_dcv", "source_dci", "smu_meas", "initsv_vidaq",
            "fetch_vi", "err_check"} =>
        /\ log = <<>>
        /\ ret.kind = "return"
        /\ (op \in {"source_dcv", "source_dci", "smu_meas"}
                => (ret.shape = "tuple2" /\ ret.v = <<0, 0>>))
        /\ (op = "fetch_vi"
                => (ret.shape = "tuple2" /\ Len(ret.v) = 2
                    /\ Len(ret.v[1]) = Len(ret.v[2])))
        /\ (op = "initsv_vidaq" => (ret.shape = "str" /\ ret.v = <<"Test STB">>))
        /\ (op = "err_check" => (ret.shape = "bool" /\ ret.v = <<FALSE>>))

(***************************************************************************)
(* md_utils.mdTable_str                                                    *)
(***************************************************************************)
MaxCells == 4       \* most cells (rows times columns) of a table

\* pstr[0:-1]
DropLast(t) == IF Len(t) = 0 THEN t ELSE SubSeq(t, 1, Len(t) - 1)

\* lines 22-24: every cell followed by '|'
RECURSIVE RowPstr(_)
RowPstr(row) ==
    IF Len(row) = 0 THEN <<>>
    ELSE RowPstr(SubSeq(row, 1, Len(row) - 1)) \o row[Len(row)] \o <<"|">>

Dashes(n) == [i \in 1..n |-> "-"]

RECURSIVE DashRuns_piped(_)
DashRuns_piped(row) ==
    IF Len(row) = 0 THEN <<>>
    ELSE DashRuns_piped(SubSeq(row, 1, Len(row) - 1)) \o Dashes(Len(row[Len(row)]))
         \o <<"|">>

\* lines 28-30: one run of dashes per cell of the row, nothing between the runs
RECURSIVE DashRuns(_)
DashRuns(row) ==
    IF Len(row) = 0 THEN <<>>
    ELSE DashRuns(SubSeq(row, 1, Len(row) - 1)) \o Dashes(Len(row[Len(row)]))

\* line 31
DashPstr(row) == DashRuns(row) \o <<"|">>

\* lines 21-33, rows i..len(str2d): the text block and the list of lines
RECURSIVE TableFrom(_, _)
TableFrom(str2d, i) ==
    IF i > Len(str2d) THEN [tablestr |-> <<>>, lines_out |-> <<>>]
    ELSE LET rest == TableFrom(str2d, i + 1)
             pstr == RowPstr(str2d[i])
             dash == DashPstr(str2d[i])
         IN  IF i = 1
             THEN [tablestr |-> DropLast(pstr) \o <<"\n">> \o DropLast(dash) \o <<"\n">>
                                \o rest.tablestr,
                   lines_out |-> <<pstr, dash>> \o rest.lines_out]
             ELSE [tablestr |-> DropLast(pstr) \o <<"\n">> \o rest.tablestr,
                   lines_out |-> <<pstr>> \o rest.lines_out]

mdTable_str(str2d) ==
    LET t == TableFrom(str2d, 1)
    IN  Return("tuple2", << t.tablestr, t.lines_out >>)

(***************************************************************************)
(* Specification SpecTable: mdTable_str applied to every rectangular       *)
(* matrix of cell texts within the bounds.                                 *)
(***************************************************************************)
CellTexts == {<<>>, <<"a">>, <<"b", "b">>, <<"c", "\n">>}

Matrices ==
    UNION {IF r * c <= MaxCells THEN [1..r -> [1..c -> CellTexts]] ELSE {} :
           r \in 0..MaxCells, c \in 0..MaxCells}

InitTable ==
    /\ DriverIdle
    /\ op = "init"
    /\ args \in [str2d : Matrices]
    /\ log = <<>>
    /\ ret = NoOutcome

MdTableStr ==
    /\ op = "init"
    /\ op' = "mdTable_str"
    /\ ret' = mdTable_str(args.str2d)
    /\ UNCHANGED <<args, log>>
    /\ DriverUnchanged

NextTable == MdTableStr

SpecTable == InitTable /\ [][NextTable]_vars

\* the cells of a row joined by '|'
RECURSIVE Joined(_)
Joined(row) ==
    IF Len(row) = 0 THEN <<>>
    ELSE IF Len(row) = 1 THEN row[1]
    ELSE Joined(SubSeq(row, 1, Len(row) - 1)) \o <<"|">> \o row[Len(row)]

RECURSIVE SumLens(_)
SumLens(row) ==
    IF Len(row) = 0 THEN 0 ELSE SumLens(SubSeq(row, 1, Len(row) - 1)) + Len(row[Len(row)])

\* the text split at its line terminators (a text ending in "\n" has no last
\* empty line)
RECURSIVE SplitLines(_, _)
SplitLines(t, cur) ==
    IF Len(t) = 0 THEN (IF Len(cur) = 0 THEN <<>> ELSE <<cur>>)
    ELSE IF t[1] = "\n" THEN <<cur>> \o SplitLines(Tail(t), <<>>)
    ELSE SplitLines(Tail(t), Append(cur, t[1]))

NoLineBreak(str2d) ==
    \A i \in DOMAIN str2d : \A j \in DOMAIN str2d[i] :
        \A k \in DOMAIN str2d[i][j] : str2d[i][j][k] # "\n"

\* the row of the matrix shown on output line n (n = 2 is the separator)
RowOfLine(n) == IF n = 1 THEN 1 ELSE n - 1

IsTable == op = "mdTable_str" /\ Len(args.str2d) >= 1

\* C8 (as stated): for a non-empty rectangular matrix of R rows the text block
\* and the list of lines both hold R+1 lines: the header, a separator of as
\* many dashes as the header cells have characters, the data rows; every line
\* but the separator is its row's cells joined by '|'.
C8_JoinedLines ==
    IsTable =>
            LET text == SplitLines(ret.v[1], <<>>)
                lines == ret.v[2]
                m == args.str2d
                R == Len(args.str2d)
            IN  /\ Len(text) = R + 1
                /\ Len(lines) = R + 1
                /\ text[2] = Dashes(SumLens(m[1]))
                /\ \A n \in (1..(R + 1)) \ {2} :
                      /\ text[n] = Joined(m[RowOfLine(n)])
                      /\ lines[n] = Joined(m[RowOfLine(n)])

\* C8 (amended): for a non-empty rectangular matrix of R rows whose cells hold
\* no line break, the text block holds R+1 lines and the list R+1 entries, in
\* the order header, separator, data rows.  In the text block a row is its
\* cells joined by '|' and the separator is as many dashes as the header cells
\* have characters; in the list every row is each of its cells followed by '|'
\* (so it ends in '|'), and the separator is the dashes followed by one '|'.
C8_LinesAndPipes ==
    (IsTable /\ NoLineBreak(args.str2d)) =>
            LET text == SplitLines(ret.v[1], <<>>)
                lines == ret.v[2]
                m == args.str2d
                R == Len(args.str2d)
            IN  /\ ret.kind = "return"
                /\ Len(text) = R + 1
                /\ Len(lines) = R + 1
                /\ text[2] = Dashes(SumLens(m[1]))
                /\ lines[2] = Dashes(SumLens(m[1])) \o <<"|">>
                /\ \A n \in (1..(R + 1)) \ {2} :
                      /\ text[n] = Joined(m[RowOfLine(n)])
                      /\ lines[n] = RowPstr(m[RowOfLine(n)])
                      /\ (Len(m[1]) >= 1 => lines[n] = text[n] \o <<"|">>)

C8_Witness ==
    /\ op = "mdTable_str"
    /\ args.str2d = << << <<"a">>, <<"b", "b">> >>, << <<"b", "b">>, <<"a">> >> >>
    /\ ret.v[1] = <<"a", "|", "b", "b", "\n", "-", "-", "-", "\n", "b", "b", "|", "a", "\n">>
    /\ ret.v[2] = << <<"a", "|", "b", "b", "|">>, <<"-", "-", "-", "|">>,
                     <<"b", "b", "|", "a", "|">> >>


(***************************************************************************)
(* _read_check_caldate (lines 127-135): dates are texts of digit           *)
(* characters; int(), str() and the string comparison are computed.        *)
(***************************************************************************)
\* int(text) for a text of decimal digits
RECURSIVE IntOf(_)
IntOf(s) ==
    IF Len(s) = 0 THEN 0
    ELSE 10 * IntOf(SubSeq(s, 1, Len(s) - 1)) + DigitValue(s[Len(s)])

DigitChar(n) ==
    CASE n = 0 -> "0" [] n = 1 -> "1" [] n = 2 -> "2" [] n = 3 -> "3" [] n = 4 -> "4"
      [] n = 5 -> "5" [] n = 6 -> "6" [] n = 7 -> "7" [] n = 8 -> "8" [] n = 9 -> "9"

\* str(n) for a natural number: no leading zeros
RECURSIVE StrOf(_)
StrOf(n) ==
    IF n < 10 THEN << DigitChar(n) >>
    ELSE Append(StrOf(n \div 10), DigitChar(n % 10))

\* a < b on strings: the first differing character decides, a proper prefix
\* is smaller
RECURSIVE StrLess(_, _)
StrLess(a, b) ==
    IF Len(b) = 0 THEN FALSE
    ELSE IF Len(a) = 0 THEN TRUE
    ELSE IF Head(a) # Head(b) THEN DigitValue(Head(a)) < DigitValue(Head(b))
    ELSE StrLess(Tail(a), Tail(b))

\* line 129
compStr(calDate) == StrOf(IntOf(calDate))

OutOfCalEvent ==
    [k |-> "log.info", c |-> "Smu Out of Cal", ch |-> 0, tag |-> <<>>, r |-> <<>>, f |-> FALSE]

\* today is the text strftime("%Y%m%d") gives for the current date
_read_check_caldate(today) ==
    /\ op = "idle"
    /\ op' = "_read_check_caldate"
    /\ args' = [args EXCEPT !.today = today]
    /\ calStatus' = IF StrLess(compStr(args.calibration_expiration), today)
                    THEN "False" ELSE "True"
    /\ log' = IF StrLess(compStr(args.calibration_expiration), today)
              THEN << OutOfCalEvent >> ELSE <<>>
    /\ ret' = ReturnNone
    /\ UNCHANGED <<session, visa_addr, idns, serial_number, model, outp, errq>>

ExpiryYears == { <<"0","9","9","9">>, <<"2","0","2","0">>, <<"2","0","2","1">> }
TodayYears == { <<"2","0","2","0">>, <<"2","0","2","1">> }
Months == { <<"0","1">>, <<"0","2">>, <<"1","2">> }
Days == { <<"0","1">>, <<"1","2">>, <<"2","8">> }
NoDate == <<>>

CalDates == { y \o m \o d : y \in ExpiryYears, m \in Months, d \in Days }
Todays == { y \o m \o d : y \in TodayYears, m \in Months, d \in Days }

InitCal ==
    /\ session = "None"
    /\ visa_addr = "addr"
    /\ idns = "None"
    /\ serial_number = "config"
    /\ model = "config"
    /\ calStatus = "unset"
    /\ outp = AllOff
    /\ errq = FALSE
    /\ op = "idle"
    /\ args \in [calibration_expiration : CalDates, today : {NoDate}]
    /\ log = <<>>
    /\ ret = NoOutcome

ReadCheckCaldate == \E today \in Todays : _read_check_caldate(today)

\* the next check of the same expiration date, on another day
NextDay ==
    /\ op = "_read_check_caldate"
    /\ op' = "idle"
    /\ args' = [args EXCEPT !.today = NoDate]
    /\ log' = <<>>
    /\ ret' = NoOutcome
    /\ UNCHANGED <<session, visa_addr, idns, serial_number, model, calStatus, outp, errq>>

NextCal == ReadCheckCaldate \/ NextDay

SpecCal == InitCal /\ [][NextCal]_vars

\* C11 (as stated): after _read_check_caldate, for an expiration date and a
\* current date both of the form YYYYMMDD, the calibration status is valid
\* exactly when the expiration text is not lexicographically smaller than the
\* text of the current date.
C11_ValidIffNotBefore ==
    op = "_read_check_caldate"
        => (calStatus = "True" <=> ~StrLess(args.calibration_expiration, args.today))


(***************************************************************************)
(* Construction (lines 36-62, 114-125) followed by open().  The keyword    *)
(* arguments are described by what they hold: whether hw_config and        *)
(* unique_identifier are given, whether hw_config has an entry for the     *)
(* instrument, and which keys that entry has.                              *)
(***************************************************************************)
LogEvent(k, c, r) == [k |-> k, c |-> c, ch |-> 0, tag |-> <<>>, r |-> r, f |-> FALSE]

NoInfoEvent == LogEvent("log.error", "No instrument info", <<>>)
MissingEvent(key) == LogEvent("log.error", "Missing", <<key>>)
PrintEvent == LogEvent("print", "error connecting to Source Measure Unit", <<>>)

AddrKeys == {"visa_addr", "ip_address", "none"}

\* lines 114-125: the address from visa_addr or ip_address, then the serial
\* number, then the model; the first missing key ends the reading and is logged
_read_instr(addr, sn, md) ==
    [visa_addr |-> IF addr = "none" THEN "None" ELSE "addr",
     serial_number |-> IF sn THEN "config" ELSE "None",
     model |-> IF sn /\ md THEN "config" ELSE "None",
     log |-> IF ~sn THEN << MissingEvent("serial_number") >>
             ELSE IF ~md THEN << MissingEvent("model") >>
             ELSE <<>>]

\* line 58: a hw_config without an entry for the instrument raises KeyError
\* inside the try, handled by the print of lines 59-62
ReadConfig(entry, addr, sn, md) ==
    IF entry THEN _read_instr(addr, sn, md)
    ELSE [visa_addr |-> "None", serial_number |-> "None", model |-> "None",
          log |-> << PrintEvent >>]

__init__(hw, uid, entry, addr, sn, md) ==
    /\ op = "new"
    /\ op' = "__init__"
    /\ args' = [hw_config |-> hw, unique_identifier |-> uid, entry |-> entry,
                addr |-> addr, serial_number |-> sn, model |-> md]
    /\ IF ~hw
       THEN \* lines 42-44: logged, and nothing is assigned
            /\ log' = << NoInfoEvent >>
            /\ ret' = ReturnNone
            /\ UNCHANGED <<session, visa_addr, idns, serial_number, model>>
       ELSE IF ~uid
       THEN \* line 45: KeyError leaves the constructor
            /\ log' = <<>>
            /\ ret' = Raise("KeyError", <<"unique_identifier">>)
            /\ UNCHANGED <<session, visa_addr, idns, serial_number, model>>
       ELSE \E cfg \in {ReadConfig(entry, addr, sn, md)} :
            /\ idns' = "None"
            /\ session' = "None"
            /\ visa_addr' = cfg.visa_addr
            /\ serial_number' = cfg.serial_number
            /\ model' = cfg.model
            /\ log' = cfg.log
            /\ ret' = ReturnNone
    /\ UNCHANGED <<calStatus, outp, errq>>

\* an argument the constructor never reads is fixed
Read(hw, uid, entry, addr, sn, md) ==
    /\ (~hw => uid)
    /\ (~(hw /\ uid) => entry)
    /\ (~(hw /\ uid /\ entry) => (addr = "none" /\ sn))
    /\ (~(hw /\ uid /\ entry /\ sn) => md)

Construct ==
    \E hw \in BOOLEAN, uid \in BOOLEAN, entry \in BOOLEAN, addr \in AddrKeys,
       sn \in BOOLEAN, md \in BOOLEAN :
        /\ Read(hw, uid, entry, addr, sn, md)
        /\ __init__(hw, uid, entry, addr, sn, md)

InitNew ==
    /\ session = "unset"
    /\ visa_addr = "unset"
    /\ idns = "unset"
    /\ serial_number = "unset"
    /\ model = "unset"
    /\ calStatus = "unset"
    /\ outp \in [Channels -> BOOLEAN]
    /\ errq = FALSE
    /\ op = "new"
    /\ args = [channel |-> 0]
    /\ log = <<>>
    /\ ret = NoOutcome

NextInit == Construct \/ Open \/ Idle

SpecInit == InitNew /\ [][NextInit]_vars

Unconstructed ==
    /\ session = "unset"
    /\ visa_addr = "unset"
    /\ idns = "unset"
    /\ serial_number = "unset"
    /\ model = "unset"

MissingKey ==
    /\ op = "__init__"
    /\ args.hw_config /\ args.unique_identifier /\ args.entry
    /\ ~(args.serial_number /\ args.model)

\* construction went on past a missing key: the key is logged, nothing is raised
\* and the object holds what was read before the key
PartialState ==
    /\ ret = ReturnNone
    /\ \E i \in 1..Len(log) : log[i].k = "log.error" /\ log[i].c = "Missing"
    /\ session = "None"
    /\ idns = "None"
    /\ visa_addr = (IF args.addr = "none" THEN "None" ELSE "addr")
    /\ serial_number = (IF args.serial_number THEN "config" ELSE "None")
    /\ model = "None"

\* C12 (as stated): open() on an object constructed without hw_config returns
\* silently (no error to the caller) and establishes no session; a missing
\* configuration key during construction is logged and construction goes on
\* with partial state.
C12_OpenReturnsSilently ==
    /\ (op = "open" /\ visa_addr = "unset") => (ret = ReturnNone /\ session # "open")
    /\ MissingKey => PartialState

\* C12 (amended): without hw_config the constructor logs, returns silently and
\* assigns nothing; open() on that object raises the connection error without
\* reaching open_resource and establishes no session; a missing configuration
\* key during construction is logged and construction goes on with partial
\* state.
C12_OpenRaisesUnconstructed ==
    /\ (op = "__init__" /\ ~args.hw_config)
         => (ret = ReturnNone /\ log = << NoInfoEvent >> /\ Unconstructed)
    /\ (op = "open" /\ visa_addr = "unset")
         => /\ ret = Raise("Exception", ConnectErrorText)
            /\ Unconstructed
            /\ \A i \in 1..Len(log) : log[i].c # "open_resource"
    /\ MissingKey => PartialState

\* open() has run on an object constructed without hw_config, with the
\* resource manager available
C12_Witness ==
    /\ op = "open"
    /\ Unconstructed
    /\ log = << Io("rm", "ResourceManager", Ok) >>
    /\ ret.kind = "raise"

====
